---- MODULE Spec2Model ----
(***************************************************************************)
(* CampusMonitorAPI: the command lifecycle manager (CommandService and     *)
(* CommandRepository), its connectivity verification, and the alert        *)
(* evaluator's sliding window (MetricWindow).                              *)
(*                                                                         *)
(* Time is in milliseconds.  Strings the code formats or parses (the       *)
(* command_id of a wire message) are sequences of one-character strings.   *)
(***************************************************************************)
EXTENDS Integers, Sequences, FiniteSets, TLC

VARIABLES
    now,        \* wall clock (time.Now()), ms
    lastSeen,   \* probes.last_seen, per probe_id
    cmds,       \* the commands table: id -> row
    nextId,     \* the serial of commands.id
    calls,      \* the IssueCommand / BroadcastCommand calls in progress
    advances,   \* how often the clock has been advanced
    delivered,  \* ghost: the last result message handled, with the table and
                \* last_seen it found
    win,        \* a MetricWindow: [values, size]
    pushed,     \* ghost: every sample pushed into win, in order
    config,       \* AlertEvaluator.config
    probeStates,  \* AlertEvaluator.probeStates: probe -> ProbeState
    evalCall,     \* the Evaluate call in progress, or the last one finished
    evalGhost,    \* ghost: counts of Evaluate calls and configuration changes
    registry,     \* the probes table: probe_id -> [status, last_seen]
    telemetryRows,\* the telemetry table, a set of records
    lastMsg,      \* ghost: the last telemetry message processed and its outcome
    probeStatus,  \* ProbeMonitor.probeStatus: probe -> status cache entry
    probeConfig,  \* ProbeMonitor.probeConfig: probe -> config cache entry
    pingStatus,   \* ProbeMonitor.pingStatus: probe -> PingStatus
    sweep,        \* the cleanupStaleData run in progress
    monGhost,     \* ghost: the last monitor event and the broadcasts heard
    monitor,      \* ProbeMonitor's context, wait group and three goroutines
    matched,      \* a matchTopic call: its arguments and its result
    ctxDone,      \* the context of the API request has been cancelled
    client,       \* the transport client: its handler registry, its lock and
                  \* the goroutines at work on them
    hub           \* the websocket Hub, its Run loop and the Dispatch call

cmdVars == <<now, advances, lastSeen, cmds, nextId, calls, delivered>>
winVars == <<win, pushed>>
evalVars == <<config, probeStates, evalCall, evalGhost>>
telVars == <<registry, telemetryRows, lastMsg>>
monVars == <<probeStatus, probeConfig, pingStatus, sweep, monGhost>>
auxVars == <<monitor, matched, ctxDone, client, hub>>
vars == <<now, advances, lastSeen, cmds, nextId, calls, delivered, win, pushed,
          config, probeStates, evalCall, evalGhost,
          registry, telemetryRows, lastMsg,
          probeStatus, probeConfig, pingStatus, sweep, monGhost,
          monitor, matched, ctxDone, client, hub>>

----------------------------------------------------------------------------
(* Bounds of the model *)

MaxCalls == 1          \* API calls (IssueCommand, BroadcastCommand) per run
MaxDeliver == 1        \* result messages handled in a row, starting from a table
MaxAdvance == 2        \* steps of the clock per run
MaxPush == 5           \* samples pushed into a window
MaxWin == 3            \* largest window size requested
MaxEval == 3           \* Evaluate calls per run
MaxConfig == 2         \* UpdateConfig and ResetProbe calls per run
MaxMsgs == 2           \* telemetry messages processed per run
MaxBroadcasts == 2     \* status and config broadcasts handled per run
MaxSweeps == 2          \* cleanupStaleData runs per run
MaxTopicLen == 4        \* characters of a pattern or topic
MaxInbound == 2         \* messages the transport client delivers per run
MaxSubs == 2            \* Subscribe and Unsubscribe calls per run
MaxDispatch == 3        \* AlertService.Dispatch calls per run

(* Program constants *)

StaleThreshold == 60000    \* const StaleThreshold = 60 * time.Second
TickMs == 500              \* time.NewTicker(500 * time.Millisecond)
VerifyTimeout == 5000      \* time.After(5 * time.Second)
PruneKeep == 5             \* PruneOldScans(ctx, result.ProbeID, 5)

Probes == {"p1"}           \* the registered probes
Senders == {"p1", "p9"}    \* probe_id of result messages; p9 is not registered
BroadcastKey == "broadcast"
CmdTypes == {"ping", "deep_scan", "set_wifi"}
BroadcastTypes == {"ping"}
Calls == 1..MaxCalls

\* ages of last_seen at start: 2 s, and exactly the threshold
InitialAges == {2000, StaleThreshold}
StartTime == 300000

----------------------------------------------------------------------------
(* fmt.Sprintf("%d", n) and fmt.Sscanf(s, "%d", &n) *)

Digits == <<"0", "1", "2", "3", "4", "5", "6", "7", "8", "9">>

DigitVal(ch) == CHOOSE d \in 0..9 : Digits[d + 1] = ch
IsDigit(ch) == \E d \in 0..9 : Digits[d + 1] = ch

RECURSIVE FormatInt(_)
FormatInt(n) ==
    IF n < 0 THEN <<"-">> \o FormatInt(0 - n)
    ELSE IF n < 10 THEN <<Digits[n + 1]>>
    ELSE FormatInt(n \div 10) \o <<Digits[(n % 10) + 1]>>

RECURSIVE SkipSpace(_)
SkipSpace(s) ==
    IF s # <<>> /\ Head(s) = " " THEN SkipSpace(Tail(s)) ELSE s

RECURSIVE ScanDigits(_, _, _)
\* consumes the leading digits of s; acc is the value so far, n their count
ScanDigits(s, acc, n) ==
    IF s # <<>> /\ IsDigit(Head(s))
    THEN ScanDigits(Tail(s), acc * 10 + DigitVal(Head(s)), n + 1)
    ELSE [val |-> acc, count |-> n]

\* Sscanf with "%d": leading spaces are skipped, a sign is accepted, at least
\* one digit is needed, and input after the number is left unread.
ScanInt(s) ==
    LET t == SkipSpace(s)
        signed == t # <<>> /\ Head(t) \in {"+", "-"}
        body == IF signed THEN Tail(t) ELSE t
        d == ScanDigits(body, 0, 0)
    IN  [ok |-> d.count > 0,
         val |-> IF d.count = 0 THEN 0
                 ELSE IF signed /\ Head(t) = "-" THEN 0 - d.val ELSE d.val]

----------------------------------------------------------------------------
(* The commands table *)

EmptyResult == "{}"
NoResult == "nil"

Row(probe, type, status) ==
    [probe |-> probe, type |-> type, status |-> status, result |-> "null"]

\* CommandRepository.Create: INSERT ... RETURNING id
Create(table, id, probe, type, status) ==
    [i \in DOMAIN table \cup {id} |->
        IF i = id THEN Row(probe, type, status) ELSE table[i]]

UpdateStatusAlways(table, id, status, result) ==
    [i \in DOMAIN table |->
        [table[i] EXCEPT !.status = status,
                         !.result = IF result = NoResult THEN EmptyResult ELSE result]]

\* CommandRepository.UpdateStatus: UPDATE commands SET status, result WHERE id
UpdateStatus(table, id, status, result) ==
    [i \in DOMAIN table |->
        IF i = id
        THEN [table[i] EXCEPT !.status = status,
                              !.result = IF result = NoResult THEN EmptyResult
                                         ELSE result]
        ELSE table[i]]

\* rows == 0 -> "command %d not found"
UpdateStatusErr(table, id) == id \notin DOMAIN table

----------------------------------------------------------------------------
(* MetricWindow, the sliding buffer of the alert evaluator *)

Samples == {-1, 0, 1}
Thresholds == {0}

\* NewMetricWindow: a size below 1 is treated as 1
NewMetricWindow(size) ==
    [values |-> <<>>, size |-> IF size < 1 THEN 1 ELSE size]

\* only the latest sample is compared
IsLatestBelow(w, threshold) ==
    w.values # <<>> /\ w.values[Len(w.values)] < threshold

\* a window that starts over once it has been full
PushRestart(w, val) ==
    [w EXCEPT !.values = IF Len(w.values) >= w.size THEN <<val>>
                         ELSE Append(w.values, val)]

PushNoEvict(w, val) == [w EXCEPT !.values = Append(w.values, val)]

\* MetricWindow.Push: drop the oldest value when full, then append
Push(w, val) ==
    [w EXCEPT !.values =
        Append(IF Len(w.values) >= w.size THEN Tail(w.values) ELSE w.values, val)]

\* MetricWindow.IsConsistentlyBelow
IsConsistentlyBelow(w, threshold) ==
    IF Len(w.values) < w.size THEN FALSE
    ELSE \A i \in 1..Len(w.values) : ~(w.values[i] >= threshold)

\* MetricWindow.IsConsistentlyAbove
IsConsistentlyAbove(w, threshold) ==
    IF Len(w.values) < w.size THEN FALSE
    ELSE \A i \in 1..Len(w.values) : ~(w.values[i] <= threshold)

----------------------------------------------------------------------------
(* Repository operations whose code is not among the sources; modelled from *)
(* the specification                                                        *)

NonTerminal == {"pending", "sent"}

\* ids are serial and issued_at is NOW() at insertion: the latest id is the
\* most recently issued row
MaxOf(S) == CHOOSE x \in S : \A y \in S : y <= x

LatestOpen(table, probe, type) ==
    LET open == {i \in DOMAIN table :
                    /\ table[i].probe = probe
                    /\ table[i].type = type
                    /\ table[i].status \in NonTerminal}
    IN  IF open = {} THEN 0 ELSE MaxOf(open)

\* CommandRepository.UpdateLatestResult: the most recent non-terminal command
\* of the same device and type takes the status and result
UpdateLatestResult(table, probe, type, status, result) ==
    UpdateStatus(table, LatestOpen(table, probe, type), status, result)

CompletedScans(table, probe) ==
    {i \in DOMAIN table :
        /\ table[i].probe = probe
        /\ table[i].type = "deep_scan"
        /\ table[i].status = "completed"}

\* the completed deep scans of a probe that are not among its keep most recent
Pruned(table, probe, keep) ==
    {i \in CompletedScans(table, probe) :
        Cardinality({j \in CompletedScans(table, probe) : j > i}) >= keep}

\* CommandRepository.PruneOldScans: keep only the most recent completed scans
PruneOldScans(table, probe, keep) ==
    [i \in DOMAIN table \ Pruned(table, probe, keep) |-> table[i]]

----------------------------------------------------------------------------
(* The transport: what publishCommand and BroadcastCommand publish *)

CommandTopic(probe) == <<"campus", "probes", probe, "command">>
BroadcastTopic == <<"campus", "probes", "broadcast", "command">>

\* mqtt.Command{Command, CommandID: fmt.Sprintf("%d", cmdID)}
WireCommand(topic, type, id) ==
    [topic |-> topic, command |-> type, command_id |-> FormatInt(id)]

----------------------------------------------------------------------------
(* API calls in progress *)

EmptyPayload == [ssid |-> "", password |-> ""]
Payloads == {EmptyPayload, [ssid |-> "lab", password |-> "secret"]}

\* models.CommandRequest
Requests == {r \in [probe : Probes, type : CmdTypes, payload : Payloads] :
                r.type = "set_wifi" \/ r.payload = EmptyPayload}

IdleCall ==
    [kind |-> "none", pc |-> "idle", probe |-> "", type |-> "",
     payload |-> EmptyPayload, id |-> 0, pingId |-> 0,
     initialLastSeen |-> 0, nextTick |-> 0, deadline |-> 0,
     err |-> "none", pub |-> <<>>, outcome |-> "none",
     \* ghosts
     age |-> -1, polls |-> 0, advanced |-> FALSE,
     statusAtCreate |-> "", statusAtReturn |-> "", resultAtReturn |-> ""]

\* the row of the call's command as it stands in table t ("gone" if deleted)
StatusIn(t, id) == IF id \in DOMAIN t THEN t[id].status ELSE "gone"
ResultIn(t, id) == IF id \in DOMAIN t THEN t[id].result ELSE "gone"

Returned(c, outcome, t) ==
    [c EXCEPT !.pc = "done", !.outcome = outcome,
              !.nextTick = 0, !.deadline = 0,
              !.statusAtReturn = StatusIn(t, c.id),
              !.resultAtReturn = ResultIn(t, c.id)]

\* call slots are taken in order
CanStart(c) ==
    /\ calls[c].pc = "idle"
    /\ \A d \in Calls : d < c => calls[d].pc # "idle"

----------------------------------------------------------------------------
(* CommandService.IssueCommand, one action per blocking step *)

IsFreshInverted(seen, t) == t - seen >= StaleThreshold

\* time.Since(probe.LastSeen) < StaleThreshold
IsFresh(seen, t) == t - seen < StaleThreshold

AfterOrEqual(a, b) == a >= b

\* p.LastSeen.After(initialLastSeen)
After(a, b) == a > b

\* the parameters IssueCommand requires before it publishes a command type
MissingParams(type, payload) ==
    type = "set_wifi" /\ (payload.ssid = "" \/ payload.password = "")

\* cmd := &models.Command{Status: "pending"}; commandRepo.Create(ctx, cmd)
IssueCreate(c, req) ==
    /\ CanStart(c)
    /\ cmds' = Create(cmds, nextId, req.probe, req.type, "pending")
    /\ nextId' = nextId + 1
    /\ calls' = [calls EXCEPT ![c] =
            [IdleCall EXCEPT !.kind = "issue",
                             !.pc = IF req.type # "ping" THEN "verify" ELSE "dispatch",
                             !.probe = req.probe, !.type = req.type,
                             !.payload = req.payload, !.id = nextId,
                             !.statusAtCreate = StatusIn(cmds', nextId)]]
    /\ UNCHANGED <<now, advances, lastSeen, delivered, winVars, evalVars, telVars, monVars,
                   auxVars>>

\* VerifyProbeConnectivity up to the creation of the wake-up ping row
VerifyLookup(c) ==
    LET call == calls[c]
        seen == lastSeen[call.probe]
    IN  /\ call.pc = "verify"
        /\ IF IsFresh(seen, now)
           THEN /\ calls' = [calls EXCEPT ![c].pc = "dispatch",
                                          ![c].age = now - seen]
                /\ UNCHANGED <<cmds, nextId>>
           ELSE /\ cmds' = Create(cmds, nextId, call.probe, "ping", "pending")
                /\ nextId' = nextId + 1
                /\ calls' = [calls EXCEPT ![c].pc = "ping",
                                          ![c].age = now - seen,
                                          ![c].pingId = nextId,
                                          ![c].initialLastSeen = seen]
        /\ UNCHANGED <<now, advances, lastSeen, delivered, winVars, evalVars, telVars, monVars,
                   auxVars>>

\* mqttClient.SendPing(probeID, tempCmd.ID), then the ticker and the deadline
VerifySendPing(c) ==
    LET call == calls[c]
    IN  /\ call.pc = "ping"
        /\ \E ok \in BOOLEAN :
              calls' = [calls EXCEPT ![c] =
                  IF ok
                  THEN [call EXCEPT
                          !.pc = "wait",
                          !.pub = Append(call.pub,
                                    WireCommand(CommandTopic(call.probe), "ping",
                                                call.pingId)),
                          !.nextTick = now + TickMs,
                          !.deadline = now + VerifyTimeout]
                  ELSE Returned(call, "ping_send_failed", cmds)]
        /\ UNCHANGED <<now, advances, lastSeen, cmds, nextId, delivered, winVars, evalVars, telVars, monVars,
                   auxVars>>

\* case <-ticker.C: the poll of the device record
VerifyPoll(c) ==
    LET call == calls[c]
    IN  /\ call.pc = "wait"
        /\ now >= call.nextTick
        /\ calls' = [calls EXCEPT ![c] =
              IF After(lastSeen[call.probe], call.initialLastSeen)
              THEN [call EXCEPT !.pc = "dispatch", !.nextTick = 0, !.deadline = 0,
                                !.polls = call.polls + 1,
                                !.advanced =
                                    lastSeen[call.probe] > call.initialLastSeen]
              ELSE [call EXCEPT !.nextTick = now + TickMs,
                                !.polls = call.polls + 1]]
        /\ UNCHANGED <<now, advances, lastSeen, cmds, nextId, delivered, winVars, evalVars, telVars, monVars,
                   auxVars>>

VerifyDeadlineProceeds(c) ==
    LET call == calls[c]
    IN  /\ call.pc = "wait"
        /\ now >= call.deadline
        /\ calls' = [calls EXCEPT ![c] =
              [call EXCEPT !.pc = "dispatch", !.nextTick = 0, !.deadline = 0,
                           !.advanced = lastSeen[call.probe] > call.initialLastSeen]]
        /\ UNCHANGED <<now, advances, lastSeen, cmds, nextId, delivered, winVars, evalVars, telVars, monVars,
                   auxVars>>

\* case <-timeout: "probe unreachable: no response to ping after 5s"
VerifyDeadline(c) ==
    LET call == calls[c]
    IN  /\ call.pc = "wait"
        /\ now >= call.deadline
        /\ calls' = [calls EXCEPT ![c] =
              [Returned(call, "unreachable", cmds) EXCEPT
                  !.advanced = lastSeen[call.probe] > call.initialLastSeen]]
        /\ UNCHANGED <<now, advances, lastSeen, cmds, nextId, delivered, winVars, evalVars, telVars, monVars,
                   auxVars>>

\* the switch on req.CommandType: validation, then the publish
Dispatch(c) ==
    LET call == calls[c]
    IN  /\ call.kind = "issue"
        /\ call.pc = "dispatch"
        /\ IF MissingParams(call.type, call.payload)
           THEN calls' = [calls EXCEPT ![c].pc = "update", ![c].err = "validation"]
           ELSE \E ok \in BOOLEAN :
                  calls' = [calls EXCEPT ![c] =
                      IF ok
                      THEN [call EXCEPT
                              !.pc = "update",
                              !.pub = Append(call.pub,
                                        WireCommand(CommandTopic(call.probe),
                                                    call.type, call.id))]
                      ELSE [call EXCEPT !.pc = "update", !.err = "publish"]]
        /\ UNCHANGED <<now, advances, lastSeen, cmds, nextId, delivered, winVars, evalVars, telVars, monVars,
                   auxVars>>

\* the status write that ends IssueCommand and BroadcastCommand
FinalStatus(err) == IF err # "none" THEN "failed" ELSE "sent"
FinalResult(err) == IF err # "none" THEN "error:" \o err ELSE NoResult

\* if err != nil { UpdateStatus(failed, {error}) } else { UpdateStatus(sent, nil) }
Finish(c) ==
    LET call == calls[c]
    IN  /\ call.kind = "issue"
        /\ call.pc = "update"
        /\ cmds' = UpdateStatus(cmds, call.id, FinalStatus(call.err),
                                FinalResult(call.err))
        /\ calls' = [calls EXCEPT ![c] =
              Returned(call,
                       IF UpdateStatusErr(cmds, call.id) THEN "update_failed"
                       ELSE IF call.err # "none" THEN "send_failed" ELSE "ok",
                       cmds')]
        /\ UNCHANGED <<now, advances, lastSeen, nextId, delivered, winVars, evalVars, telVars, monVars,
                   auxVars>>

----------------------------------------------------------------------------
(* CommandService.BroadcastCommand *)

\* cmd := &models.Command{ProbeID: "broadcast", Status: "pending"}; Create
BroadcastCreate(c, type) ==
    /\ CanStart(c)
    /\ cmds' = Create(cmds, nextId, BroadcastKey, type, "pending")
    /\ nextId' = nextId + 1
    /\ calls' = [calls EXCEPT ![c] =
            [IdleCall EXCEPT !.kind = "broadcast", !.pc = "dispatch",
                             !.probe = BroadcastKey, !.type = type, !.id = nextId,
                             !.statusAtCreate = StatusIn(cmds', nextId)]]
    /\ UNCHANGED <<now, advances, lastSeen, delivered, winVars, evalVars, telVars, monVars,
                   auxVars>>

\* mqttClient.BroadcastCommand(cmd.ID, commandType, params)
BroadcastPublish(c) ==
    LET call == calls[c]
    IN  /\ call.kind = "broadcast"
        /\ call.pc = "dispatch"
        /\ \E ok \in BOOLEAN :
              calls' = [calls EXCEPT ![c] =
                  IF ok
                  THEN [call EXCEPT
                          !.pc = "update",
                          !.pub = Append(call.pub,
                                    WireCommand(BroadcastTopic, call.type, call.id))]
                  ELSE [call EXCEPT !.pc = "update", !.err = "publish"]]
        /\ UNCHANGED <<now, advances, lastSeen, cmds, nextId, delivered, winVars, evalVars, telVars, monVars,
                   auxVars>>

BroadcastFinishKeepsPending(c) ==
    LET call == calls[c]
    IN  /\ call.kind = "broadcast"
        /\ call.pc = "update"
        /\ cmds' = IF call.err # "none" THEN cmds
                   ELSE UpdateStatus(cmds, call.id, "sent", NoResult)
        /\ calls' = [calls EXCEPT ![c] =
              Returned(call, IF call.err # "none" THEN "send_failed" ELSE "ok",
                       cmds')]
        /\ UNCHANGED <<now, advances, lastSeen, nextId, delivered, winVars, evalVars, telVars, monVars,
                   auxVars>>

\* UpdateStatus(failed, {error}) and return err, or UpdateStatus(sent, nil)
BroadcastFinish(c) ==
    LET call == calls[c]
    IN  /\ call.kind = "broadcast"
        /\ call.pc = "update"
        /\ cmds' = UpdateStatus(cmds, call.id, FinalStatus(call.err),
                                FinalResult(call.err))
        /\ calls' = [calls EXCEPT ![c] =
              Returned(call,
                       IF UpdateStatusErr(cmds, call.id) THEN "update_failed"
                       ELSE IF call.err # "none" THEN "send_failed" ELSE "ok",
                       cmds')]
        /\ UNCHANGED <<now, advances, lastSeen, nextId, delivered, winVars, evalVars, telVars, monVars,
                   auxVars>>

----------------------------------------------------------------------------
(* Result correlation *)

DeviceResult == "result:device"
ApiResult == "result:api"

\* the ids a result message or a manual update may name
MsgIds == {1, PruneKeep + 1}

\* command_id strings: absent, the decimal ids, and strings that are no id
IdInputs ==
    {<<>>} \cup {FormatInt(i) : i \in MsgIds}
           \cup {<<"0">>, <<"x">>, <<" ">> \o FormatInt(PruneKeep + 1) \o <<"x">>}

MsgStatuses == {"completed", "failed", "processing"}

\* the result wire payload {probe_id, command, status, result, command_id}
Msgs == [probe_id : Senders, command : CmdTypes, status : MsgStatuses,
         result : {DeviceResult}, command_id : IdInputs]

\* ProbeRepository.UpdateLastSeen: UPDATE probes SET last_seen WHERE probe_id
UpdateLastSeen(seen, probe, t) ==
    [p \in DOMAIN seen |-> IF p = probe THEN t ELSE seen[p]]

\* the id a message's command_id names, 0 when it names none
\* (fmt.Sscanf(result.CommandID, "%d", &cmdID); err == nil && cmdID > 0)
CorrelatedId(m) ==
    LET r == ScanInt(m.command_id)
    IN  IF r.ok /\ r.val > 0 THEN r.val ELSE 0

\* the table after the correlation step of ProcessCommandResult
Correlate(table, m) ==
    IF m.command_id # <<>>
    THEN IF CorrelatedId(m) > 0
         THEN UpdateStatus(table, CorrelatedId(m), m.status, m.result)
         ELSE table
    ELSE UpdateLatestResult(table, m.probe_id, m.command, m.status, m.result)

\* the per-type side effects on the commands table (deep_scan: PruneOldScans)
SideEffectTable(table, m) ==
    IF m.status = "completed" /\ m.command = "deep_scan"
    THEN PruneOldScans(table, m.probe_id, PruneKeep)
    ELSE table

\* the per-type side effects on last_seen (get_status, ping: UpdateLastSeen)
SideEffectSeen(seen, m, t) ==
    IF m.status = "completed" /\ m.command \in {"ping", "get_status"}
    THEN UpdateLastSeen(seen, m.probe_id, t)
    ELSE seen

\* CommandService.ProcessCommandResult, the handler of a result message
ProcessCommandResult(m) ==
    /\ cmds' = SideEffectTable(Correlate(cmds, m), m)
    /\ lastSeen' = SideEffectSeen(lastSeen, m, now)
    /\ UNCHANGED <<now, advances, nextId, calls, winVars, evalVars, telVars, monVars,
                   auxVars>>

\* the ids the API's manual update names
ApiIds == {1}

\* the result messages of the registered probes that name a command by its
\* decimal id or by none
LifecycleMsgs ==
    {m \in Msgs : m.probe_id \in Probes
                   /\ m.command_id \in {<<>>} \cup {FormatInt(i) : i \in ApiIds}}

NoDelivery == [n |-> 0]

\* CommandService.UpdateResultByID: the manual result update of the API
UpdateResultByID(id, result) ==
    /\ cmds' = UpdateStatus(cmds, id, "completed", result)
    /\ UNCHANGED <<now, advances, lastSeen, nextId, calls, delivered, winVars, evalVars, telVars, monVars,
                   auxVars>>

----------------------------------------------------------------------------
(* AlertEvaluator: per-probe sliding windows and the alerts they dispatch *)

EvalProbes == {"p1", "p2"}
RssiSamples == {-1, 0}
LatencySamples == {0, 1}

\* models.AlertConfig
AlertConfigs ==
    [RSSIThreshold : {0, 1}, RSSIOccurrences : {2, 3},
     LatencyThreshold : {0}, LatencyWindow : {1, 2}]

InitialConfig ==
    [RSSIThreshold |-> 0, RSSIOccurrences |-> 2,
     LatencyThreshold |-> 0, LatencyWindow |-> 1]

\* models.Telemetry carrying both metrics
Telemetries == [ProbeID : EvalProbes, RSSI : RssiSamples, Latency : LatencySamples]

SeverityWarning == "WARNING"
SeverityCritical == "CRITICAL"
CategorySignal == "SIGNAL"
CategoryNetwork == "NETWORK"

\* make(map[string]*ProbeState)
NoStates == [p \in {} |-> 0]

\* &ProbeState{RSSIWindow: NewMetricWindow(...), LatencyWindow: NewMetricWindow(...)}
\* ghosts: the samples pushed into each window since the state was made, and
\* the number of window-size changes that preceded its making
NewProbeState(cfg, epoch) ==
    [RSSIWindow |-> NewMetricWindow(cfg.RSSIOccurrences),
     LatencyWindow |-> NewMetricWindow(cfg.LatencyWindow),
     rssiSeq |-> <<>>, latSeq |-> <<>>, born |-> epoch]

\* AlertEvaluator.dispatch: the alert handed to alertService.Dispatch
Alert(t, cat, sev, key, thresh, actual, cfg) ==
    [ProbeID |-> t.ProbeID, Category |-> cat, Severity |-> sev,
     MetricKey |-> key, ThresholdValue |-> thresh, ActualValue |-> actual,
     Status |-> "ACTIVE", Occurrences |-> cfg.RSSIOccurrences]

NoTelemetry == [ProbeID |-> "", RSSI |-> 0, Latency |-> 0]

\* models.Telemetry whose RSSI or Latency pointer may be nil
SparseTelemetries ==
    [ProbeID : {"p1"}, RSSI : RssiSamples, Latency : LatencySamples,
     rssiNil : BOOLEAN, latencyNil : BOOLEAN]

\* the pointer field of the telemetry is nil
IsNil(t, field) == field \in DOMAIN t /\ t[field]

IdleEval ==
    [pc |-> "idle", t |-> NoTelemetry,
     state |-> NewProbeState(InitialConfig, 0),
     attached |-> FALSE,      \* state is still the entry of probeStates
     err |-> "none",
     signal |-> <<>>,         \* alerts dispatched by the signal test
     latency |-> <<>>,        \* alerts dispatched by the latency test
     \* ghosts
     rssiBefore |-> 0, latBefore |-> 0,
     threshold |-> 0, epochAtSignal |-> 0, epochAtLatency |-> 0]

NoEvalGhost == [evals |-> 0, changes |-> 0, epoch |-> 0]

InFlight(call) == call.pc \in {"signal", "latency"}

\* Evaluate, under e.mu: look the probe's state up, creating it if missing
EvalLookup(t) ==
    LET exists == t.ProbeID \in DOMAIN probeStates
        state == IF exists THEN probeStates[t.ProbeID]
                 ELSE NewProbeState(config, evalGhost.epoch)
    IN  /\ ~InFlight(evalCall)
        /\ evalGhost.evals < MaxEval
        /\ probeStates' = [p \in DOMAIN probeStates \cup {t.ProbeID} |->
                              IF p = t.ProbeID THEN state ELSE probeStates[p]]
        /\ evalCall' = [IdleEval EXCEPT !.pc = "signal", !.t = t,
                                        !.state = state, !.attached = TRUE,
                                        !.rssiBefore = Len(state.rssiSeq),
                                        !.latBefore = Len(state.latSeq)]
        /\ evalGhost' = [evalGhost EXCEPT !.evals = @ + 1]
        /\ UNCHANGED <<config, cmdVars, winVars, telVars, monVars, auxVars>>

\* the entry of probeStates follows the state the call holds while the call's
\* reference is still the one in the map
Stored(call, state) ==
    IF call.attached
    THEN [probeStates EXCEPT ![call.t.ProbeID] = state]
    ELSE probeStates

\* Evaluate: RSSIWindow.Push, IsConsistentlyBelow, dispatch
EvalSignal ==
    LET call == evalCall
        state == [call.state EXCEPT
                     !.RSSIWindow = Push(@, call.t.RSSI),
                     !.rssiSeq = Append(@, call.t.RSSI)]
        seen == [call EXCEPT !.state = state,
                             !.threshold = config.RSSIThreshold,
                             !.epochAtSignal = evalGhost.epoch]
        alert == Alert(call.t, CategorySignal, SeverityWarning, "rssi",
                       config.RSSIThreshold, call.t.RSSI, config)
    IN  /\ call.pc = "signal"
        /\ IF IsNil(call.t, "rssiNil")
           THEN \* *telemetry.RSSI of a nil pointer: the call panics
                /\ probeStates' = probeStates
                /\ evalCall' = [call EXCEPT !.pc = "done", !.err = "panic"]
           ELSE /\ probeStates' = Stored(call, state)
                /\ IF IsConsistentlyBelow(state.RSSIWindow, config.RSSIThreshold)
                   THEN \E ok \in BOOLEAN :
                          evalCall' = [seen EXCEPT
                                          !.signal = <<alert>>,
                                          !.pc = IF ok THEN "latency" ELSE "done",
                                          !.err = IF ok THEN "none" ELSE "sink"]
                   ELSE evalCall' = [seen EXCEPT !.pc = "latency"]
        /\ UNCHANGED <<config, evalGhost, cmdVars, winVars, telVars, monVars, auxVars>>

\* Evaluate: LatencyWindow.Push, IsConsistentlyAbove, dispatch
EvalLatency ==
    LET call == evalCall
        state == [call.state EXCEPT
                     !.LatencyWindow = Push(@, call.t.Latency),
                     !.latSeq = Append(@, call.t.Latency)]
        seen == [call EXCEPT !.state = state, !.pc = "done",
                             !.epochAtLatency = evalGhost.epoch]
        alert == Alert(call.t, CategoryNetwork, SeverityCritical, "latency",
                       config.LatencyThreshold, call.t.Latency, config)
    IN  /\ call.pc = "latency"
        /\ IF IsNil(call.t, "latencyNil")
           THEN \* *telemetry.Latency of a nil pointer: the call panics
                /\ probeStates' = probeStates
                /\ evalCall' = [call EXCEPT !.pc = "done", !.err = "panic"]
           ELSE /\ probeStates' = Stored(call, state)
                /\ IF IsConsistentlyAbove(state.LatencyWindow, config.LatencyThreshold)
                   THEN \E ok \in BOOLEAN :
                          evalCall' = [seen EXCEPT
                                          !.latency = <<alert>>,
                                          !.err = IF ok THEN "none" ELSE "sink"]
                   ELSE evalCall' = seen
        /\ UNCHANGED <<config, evalGhost, cmdVars, winVars, telVars, monVars, auxVars>>

\* newCfg.RSSIOccurrences != e.config.RSSIOccurrences || newCfg.LatencyWindow != ...
SizesDiffer(newCfg, cfg) ==
    \/ newCfg.RSSIOccurrences # cfg.RSSIOccurrences
    \/ newCfg.LatencyWindow # cfg.LatencyWindow

\* AlertEvaluator.UpdateConfig: a new map when a window size changes; a call
\* that already holds a state keeps its reference to it
UpdateConfig(newCfg) ==
    LET resized == SizesDiffer(newCfg, config)
    IN  /\ evalGhost.changes < MaxConfig
        /\ newCfg # config
        /\ probeStates' = IF resized THEN NoStates ELSE probeStates
        /\ config' = newCfg
        /\ evalCall' = IF resized THEN [evalCall EXCEPT !.attached = FALSE]
                       ELSE evalCall
        /\ evalGhost' = [evalGhost EXCEPT
                            !.changes = @ + 1,
                            !.epoch = IF resized THEN @ + 1 ELSE @]
        /\ UNCHANGED <<cmdVars, winVars, telVars, monVars, auxVars>>

\* AlertEvaluator.ResetProbe: delete(e.probeStates, probeID)
ResetProbe(probe) ==
    /\ evalGhost.changes < MaxConfig
    /\ probe \in DOMAIN probeStates
    /\ probeStates' = [p \in DOMAIN probeStates \ {probe} |-> probeStates[p]]
    /\ evalCall' = IF evalCall.t.ProbeID = probe
                   THEN [evalCall EXCEPT !.attached = FALSE] ELSE evalCall
    /\ evalGhost' = [evalGhost EXCEPT !.changes = @ + 1]
    /\ UNCHANGED <<config, cmdVars, winVars, telVars, monVars, auxVars>>

\* NewAlertEvaluator(cfg, alertSvc)
InitEval ==
    /\ config = InitialConfig
    /\ probeStates = NoStates
    /\ evalCall = IdleEval
    /\ evalGhost = NoEvalGhost

----------------------------------------------------------------------------
(* JSON values as json.Unmarshal leaves them in a map[string]interface{} *)

Absent == [type |-> "absent", s |-> "", n |-> 0]
Str(v) == [type |-> "string", s |-> v, n |-> 0]
Num(v) == [type |-> "number", s |-> "", n |-> v]

\* the type assertions x.(string) and x.(float64)
IsString(v) == v.type = "string"
IsNumber(v) == v.type = "number"

----------------------------------------------------------------------------
(* TelemetryService.ProcessMessage *)

\* the epoch of a message, in seconds: one second before the start
EpochSec == (StartTime \div 1000) - 1

\* the decoded payload: pid, type, epoch and one metric
RawMessages ==
    [pid : {Absent, Num(7), Str("p1"), Str("p2")},
     type : {Absent, Num(7), Str("light"), Str("enhanced"), Str("bogus")},
     epoch : {Absent, Num(EpochSec)},
     rssi : {Absent, Num(-70)}]

\* rawData["pid"].(string)
HasIdentityAlways(m) == TRUE
HasIdentity(m) == IsString(m.pid)

\* the record of an auto-registered probe
UnknownProbe(t) == [status |-> "unknown", last_seen |-> t]
KnownProbe(t) == [status |-> "active", last_seen |-> t]

AutoRegisterActive(reg, key, t) ==
    IF key \in DOMAIN reg THEN reg
    ELSE [k \in DOMAIN reg \cup {key} |->
             IF k = key THEN KnownProbe(t) ELSE reg[k]]

\* probeRepo.GetByID fails: probeRepo.Create(&models.Probe{Status: "unknown", ...})
AutoRegister(reg, key, t) ==
    IF key \in DOMAIN reg THEN reg
    ELSE [k \in DOMAIN reg \cup {key} |->
             IF k = key THEN UnknownProbe(t) ELSE reg[k]]

\* parseLightTelemetry: pid and epoch are required, metrics are optional;
\* time.Unix(int64(epoch), 0)
ParseLight(m) ==
    IF ~IsString(m.pid) THEN [err |-> "missing probe_id"]
    ELSE IF ~IsNumber(m.epoch) THEN [err |-> "missing epoch timestamp"]
    ELSE [err |-> "none",
          telemetry |-> [Timestamp |-> m.epoch.n * 1000, ProbeID |-> m.pid.s,
                         Type |-> "light",
                         RSSI |-> IF IsNumber(m.rssi) THEN m.rssi ELSE Absent]]

\* parseEnhancedTelemetry
ParseEnhanced(m) ==
    LET r == ParseLight(m)
    IN  IF r.err # "none" THEN r
        ELSE [r EXCEPT !.telemetry.Type = "enhanced"]

\* the type switch of ProcessMessage
Decode(m) ==
    IF ~IsString(m.type) THEN [err |-> "missing or invalid 'type' field"]
    ELSE IF m.type.s = "light" THEN ParseLight(m)
    ELSE IF m.type.s = "enhanced" THEN ParseEnhanced(m)
    ELSE [err |-> "unknown telemetry type"]

\* ProbeRepository.UpdateLastSeen on the probes table
TouchLastSeen(reg, key, t) ==
    [k \in DOMAIN reg |-> IF k = key THEN [reg[k] EXCEPT !.last_seen = t]
                          ELSE reg[k]]

NoMsg == [n |-> 0]

\* TelemetryService.ProcessMessage
ProcessMessage(m) ==
    /\ lastMsg.n < MaxMsgs
    /\ IF ~HasIdentity(m)
       THEN /\ UNCHANGED <<registry, telemetryRows>>
            /\ lastMsg' = [n |-> lastMsg.n + 1, msg |-> m, err |-> "missing probe_id",
                           registry |-> registry, rows |-> telemetryRows]
       ELSE LET reg == AutoRegister(registry, m.pid.s, now)
                d == Decode(m)
            IN  /\ registry' = IF d.err = "none"
                               THEN TouchLastSeen(reg, d.telemetry.ProbeID,
                                                  d.telemetry.Timestamp)
                               ELSE reg
                /\ telemetryRows' = IF d.err = "none"
                                    THEN telemetryRows \cup {d.telemetry}
                                    ELSE telemetryRows
                /\ lastMsg' = [n |-> lastMsg.n + 1, msg |-> m, err |-> d.err,
                               registry |-> registry, rows |-> telemetryRows]
    /\ UNCHANGED <<cmdVars, winVars, evalVars, monVars, auxVars>>

NoProbes == [k \in {} |-> 0]

InitTelemetry ==
    /\ registry = NoProbes
    /\ telemetryRows = {}
    /\ lastMsg = NoMsg

----------------------------------------------------------------------------
(* ProbeMonitor: the passive caches, the liveness flags and the sweep *)

MonitorKeys == {"p1", "p2"}
StaleAfter == 900000       \* staleThreshold := 15 * time.Minute
OfflineAfter == 180000     \* 3 * time.Minute
ZeroTime == 0              \* the zero time.Time of a PingStatus literal

\* status broadcasts: probe_id and two of the recognized fields
StatusBroadcasts ==
    [probe_id : {Absent, Str("p1"), Str("p2")},
     ip : {Absent, Str("10.0.0.5")},
     rssi : {Absent, Num(-60)}]

\* config broadcasts: probe_id and two of the recognized fields
ConfigBroadcasts ==
    [probe_id : {Absent, Str("p1"), Str("p2")},
     wifi : {Absent, Str("ssid=lab")},
     heap_free : {Absent, Num(1000)}]

\* &ProbeStatusCache{ProbeID, UpdatedAt: time.Now()} and the fields carried
StatusEntry(m, t) ==
    [ProbeID |-> m.probe_id.s,
     IP |-> IF IsString(m.ip) THEN m.ip.s ELSE "",
     RSSI |-> IF IsNumber(m.rssi) THEN m.rssi.n ELSE 0,
     UpdatedAt |-> t]

\* &ProbeConfigCache{ProbeID, UpdatedAt: time.Now()} and the fields carried
ConfigEntry(m, t) ==
    [ProbeID |-> m.probe_id.s,
     WiFi |-> IF IsString(m.wifi) THEN m.wifi.s ELSE "",
     HeapFree |-> IF IsNumber(m.heap_free) THEN m.heap_free.n ELSE 0,
     UpdatedAt |-> t]

\* m[key] = entry
Put(m, key, entry) ==
    [k \in DOMAIN m \cup {key} |-> IF k = key THEN entry ELSE m[k]]

\* ProbeMonitor.setPingStatus
SetPingStatus(m, key, online, t) ==
    Put(m, key, [Online |-> online, LastSeen |-> t, UpdatedAt |-> t])

NoEntries == [k \in {} |-> 0]
Nil == [ProbeID |-> "nil"]

\* ProbeMonitor.GetProbeStatus and GetProbeConfig: the map's entry, or nil
GetProbeStatus(key) == IF key \in DOMAIN probeStatus THEN probeStatus[key] ELSE Nil
GetProbeConfig(key) == IF key \in DOMAIN probeConfig THEN probeConfig[key] ELSE Nil

\* ProbeMonitor.GetPingStatus
GetPingStatus(key) ==
    IF key \in DOMAIN pingStatus THEN pingStatus[key]
    ELSE [Online |-> FALSE, LastSeen |-> ZeroTime, UpdatedAt |-> now]

NoMonGhost ==
    [event |-> "none", probe |-> "", msgs |-> 0, sweeps |-> 0,
     heard |-> NoEntries]     \* when each probe's last status broadcast came

IdleSweep == [pc |-> "idle", now |-> 0]

\* ProbeMonitor.handleStatusBroadcast
HandleStatusBroadcast(m) ==
    /\ monGhost.msgs < MaxBroadcasts
    /\ IF ~IsString(m.probe_id)
       THEN /\ UNCHANGED <<probeStatus, pingStatus, lastSeen>>
            /\ monGhost' = [monGhost EXCEPT !.event = "ignored", !.probe = "",
                                            !.msgs = @ + 1]
       ELSE LET key == m.probe_id.s
            IN  /\ probeStatus' = Put(probeStatus, key, StatusEntry(m, now))
                /\ lastSeen' = UpdateLastSeen(lastSeen, key, now)
                /\ pingStatus' = SetPingStatus(pingStatus, key, TRUE, now)
                /\ monGhost' = [monGhost EXCEPT
                                   !.event = "status", !.probe = key,
                                   !.msgs = @ + 1,
                                   !.heard = Put(@, key, now)]
    /\ UNCHANGED <<now, advances, cmds, nextId, calls, delivered, probeConfig,
                   sweep, winVars, evalVars, telVars, auxVars>>

\* ProbeMonitor.handleConfigBroadcast
HandleConfigBroadcast(m) ==
    /\ monGhost.msgs < MaxBroadcasts
    /\ IF ~IsString(m.probe_id)
       THEN /\ UNCHANGED probeConfig
            /\ monGhost' = [monGhost EXCEPT !.event = "ignored", !.probe = "",
                                            !.msgs = @ + 1]
       ELSE /\ probeConfig' = Put(probeConfig, m.probe_id.s, ConfigEntry(m, now))
            /\ monGhost' = [monGhost EXCEPT
                               !.event = "config", !.probe = m.probe_id.s,
                               !.msgs = @ + 1]
    /\ UNCHANGED <<cmdVars, probeStatus, pingStatus, sweep, winVars, evalVars,
                   telVars, auxVars>>

KeptYounger(m, t, limit) ==
    [k \in {j \in DOMAIN m : t - m[j].UpdatedAt < limit} |-> m[k]]

IsOverdueAtLimit(t, seen) == t - seen >= OfflineAfter

\* now.Sub(ping.LastSeen) > 3*time.Minute
IsOverdue(t, seen) == t - seen > OfflineAfter

\* the entries of a cache that a sweep at time t keeps
Kept(m, t, limit) ==
    [k \in {j \in DOMAIN m : ~(t - m[j].UpdatedAt > limit)} |-> m[k]]

\* cleanupStaleData: now := time.Now()
SweepStart ==
    /\ sweep.pc = "idle"
    /\ monGhost.sweeps < MaxSweeps
    /\ sweep' = [pc |-> "status", now |-> now]
    /\ monGhost' = [monGhost EXCEPT !.event = "sweep", !.probe = "",
                                    !.sweeps = @ + 1]
    /\ UNCHANGED <<cmdVars, probeStatus, probeConfig, pingStatus, winVars,
                   evalVars, telVars, auxVars>>

\* cleanupStaleData, under statusMux
SweepStatus ==
    /\ sweep.pc = "status"
    /\ probeStatus' = Kept(probeStatus, sweep.now, StaleAfter)
    /\ sweep' = [sweep EXCEPT !.pc = "config"]
    /\ monGhost' = [monGhost EXCEPT !.event = "sweep", !.probe = ""]
    /\ UNCHANGED <<cmdVars, probeConfig, pingStatus, winVars, evalVars, telVars,
                   auxVars>>

\* cleanupStaleData, under configMux
SweepConfig ==
    /\ sweep.pc = "config"
    /\ probeConfig' = Kept(probeConfig, sweep.now, StaleAfter)
    /\ sweep' = [sweep EXCEPT !.pc = "ping"]
    /\ monGhost' = [monGhost EXCEPT !.event = "sweep", !.probe = ""]
    /\ UNCHANGED <<cmdVars, probeStatus, pingStatus, winVars, evalVars, telVars,
                   auxVars>>

\* cleanupStaleData, under pingMux: mark offline probes
SweepPing ==
    /\ sweep.pc = "ping"
    /\ pingStatus' =
          [k \in DOMAIN pingStatus |->
              IF IsOverdue(sweep.now, pingStatus[k].LastSeen)
              THEN [Online |-> FALSE, LastSeen |-> pingStatus[k].LastSeen,
                    UpdatedAt |-> sweep.now]
              ELSE pingStatus[k]]
    /\ sweep' = [sweep EXCEPT !.pc = "idle"]
    /\ monGhost' = [monGhost EXCEPT !.event = "swept", !.probe = ""]
    /\ UNCHANGED <<cmdVars, probeStatus, probeConfig, winVars, evalVars, telVars,
                   auxVars>>

\* NewProbeMonitor
InitMonitor ==
    /\ probeStatus = NoEntries
    /\ probeConfig = NoEntries
    /\ pingStatus = NoEntries
    /\ sweep = IdleSweep
    /\ monGhost = NoMonGhost

----------------------------------------------------------------------------
(* ProbeMonitor: Start, the three goroutines and Shutdown *)

\* the goroutines Start launches
Workers == {"status", "config", "cleanup"}

\* NewProbeMonitor: context.WithCancel, an empty wait group, nothing started
NewMonitor ==
    [ctxDone |-> FALSE, wg |-> 0, shutdown |-> "none",
     loops |-> [w \in Workers |-> "idle"]]

\* the goroutine has returned: its deferred pm.wg.Done() has run
Returned1(mon, w) ==
    [mon EXCEPT !.loops[w] = "exited", !.wg = @ - 1]

\* ProbeMonitor.Start: wg.Add(1) and go, three times
Start ==
    /\ monitor.shutdown = "none"
    /\ \A w \in Workers : monitor.loops[w] = "idle"
    /\ monitor' = [monitor EXCEPT
                      !.wg = @ + Cardinality(Workers),
                      !.loops = [w \in Workers |->
                                    IF w = "cleanup" THEN "select"
                                    ELSE "subscribing"]]
    /\ UNCHANGED <<cmdVars, winVars, evalVars, telVars, monVars, matched, ctxDone, client, hub>>

\* ch, err := pm.mqttClient.SubscribeChannel(topic); on an error the loop
\* returns before it has handled anything
Subscribed(w, ok) ==
    /\ monitor.loops[w] = "subscribing"
    /\ monitor' = IF ok THEN [monitor EXCEPT !.loops[w] = "select"]
                  ELSE Returned1(monitor, w)
    /\ UNCHANGED <<cmdVars, winVars, evalVars, telVars, monVars, matched, ctxDone, client, hub>>

\* select: case <-pm.ctx.Done(): return
LoopExit(w) ==
    /\ monitor.ctxDone
    /\ monitor.loops[w] = "select"
    /\ w = "cleanup" => sweep.pc = "idle"
    /\ monitor' = Returned1(monitor, w)
    /\ UNCHANGED <<cmdVars, winVars, evalVars, telVars, monVars, matched, ctxDone, client, hub>>

\* select: case msg := <-ch: pm.handleStatusBroadcast(...)
StatusLoop(m) == monitor.loops["status"] = "select" /\ HandleStatusBroadcast(m)

\* select: case msg := <-ch: pm.handleConfigBroadcast(...)
ConfigLoop(m) == monitor.loops["config"] = "select" /\ HandleConfigBroadcast(m)

\* select: case <-ticker.C: pm.cleanupStaleData()
CleanupLoop ==
    \/ monitor.loops["cleanup"] = "select" /\ SweepStart
    \/ SweepStatus
    \/ SweepConfig
    \/ SweepPing

\* ProbeMonitor.Shutdown: pm.cancel()
ShutdownCancel ==
    /\ monitor.shutdown = "none"
    /\ monitor' = [monitor EXCEPT !.ctxDone = TRUE, !.shutdown = "waiting"]
    /\ UNCHANGED <<cmdVars, winVars, evalVars, telVars, monVars, matched, ctxDone, client, hub>>

ShutdownReturnEarly ==
    /\ monitor.shutdown = "waiting"
    /\ monitor' = [monitor EXCEPT !.shutdown = "returned"]
    /\ UNCHANGED <<cmdVars, winVars, evalVars, telVars, monVars, matched, ctxDone, client, hub>>

\* ProbeMonitor.Shutdown: pm.wg.Wait() returns
ShutdownReturn ==
    /\ monitor.shutdown = "waiting"
    /\ monitor.wg = 0
    /\ monitor' = [monitor EXCEPT !.shutdown = "returned"]
    /\ UNCHANGED <<cmdVars, winVars, evalVars, telVars, monVars, matched, ctxDone, client, hub>>

----------------------------------------------------------------------------
(* The transport client: topic patterns *)

\* strings are sequences of characters
PatternChars == {"a", "+", "#", "/"}
TopicChars == {"a", "b", "/"}

Strings(chars, n) == UNION {[1..k -> chars] : k \in 0..n}

\* splitTopic: the non-empty runs of characters between slashes
RECURSIVE SplitFrom(_, _, _, _)
SplitFrom(topic, i, current, parts) ==
    IF i > Len(topic)
    THEN IF current # <<>> THEN Append(parts, current) ELSE parts
    ELSE IF topic[i] = "/"
         THEN IF current # <<>>
              THEN SplitFrom(topic, i + 1, <<>>, Append(parts, current))
              ELSE SplitFrom(topic, i + 1, current, parts)
         ELSE SplitFrom(topic, i + 1, Append(current, topic[i]), parts)

splitTopic(topic) == SplitFrom(topic, 1, <<>>, <<>>)

\* matchTopic: the loop over patternParts, from index i
RECURSIVE MatchFrom(_, _, _)
MatchFrom(patternParts, topicParts, i) ==
    IF i > Len(patternParts)
    THEN Len(patternParts) = Len(topicParts)
    ELSE IF patternParts[i] = <<"#">> THEN TRUE
    ELSE IF patternParts[i] = <<"+">>
         THEN MatchFrom(patternParts, topicParts, i + 1)
    ELSE IF i > Len(topicParts) \/ patternParts[i] # topicParts[i] THEN FALSE
    ELSE MatchFrom(patternParts, topicParts, i + 1)

matchTopic(pattern, topic) ==
    IF pattern = topic THEN TRUE
    ELSE LET patternParts == splitTopic(pattern)
             topicParts == splitTopic(topic)
         IN  IF Len(patternParts) > Len(topicParts) THEN FALSE
             ELSE MatchFrom(patternParts, topicParts, 1)

NoMatch == [pattern |-> <<>>, topic |-> <<>>, done |-> FALSE, result |-> FALSE]

\* a call of matchTopic
MatchTopic ==
    /\ ~matched.done
    /\ matched' = [matched EXCEPT
                      !.done = TRUE,
                      !.result = matchTopic(matched.pattern, matched.topic)]
    /\ UNCHANGED <<cmdVars, winVars, evalVars, telVars, monVars, monitor, ctxDone, client, hub>>

----------------------------------------------------------------------------
(* VerifyProbeConnectivity under a context that can be cancelled *)

\* the request's context is cancelled, or its deadline passes
CtxCancel ==
    /\ ~ctxDone
    /\ ctxDone' = TRUE
    /\ UNCHANGED <<cmdVars, winVars, evalVars, telVars, monVars, monitor, matched, client, hub>>

\* probeRepo.GetByID(ctx, probeID) at the start: with a cancelled context the
\* lookup fails and the call returns "probe lookup failed"
VerifyLookupCtx(c) ==
    IF ctxDone
    THEN /\ calls[c].pc = "verify"
         /\ calls' = [calls EXCEPT ![c] = Returned(calls[c], "lookup_failed", cmds)]
         /\ UNCHANGED <<now, advances, lastSeen, cmds, nextId, delivered,
                        winVars, evalVars, telVars, monVars, auxVars>>
    ELSE VerifyLookup(c)

\* case <-ticker.C: with a cancelled context GetByID returns an error and
\* the loop goes round
VerifyPollCtx(c) ==
    IF ctxDone
    THEN /\ calls[c].pc = "wait"
         /\ now >= calls[c].nextTick
         /\ calls' = [calls EXCEPT ![c].nextTick = now + TickMs,
                                   ![c].polls = @ + 1]
         /\ UNCHANGED <<now, advances, lastSeen, cmds, nextId, delivered,
                        winVars, evalVars, telVars, monVars, auxVars>>
    ELSE VerifyPoll(c)

\* the cancellation is noticed but the loop goes on
VerifyCancelledStays(c) ==
    /\ calls[c].pc = "wait"
    /\ calls[c].outcome = "none"
    /\ ctxDone
    /\ calls' = [calls EXCEPT ![c].outcome = "cancelled"]
    /\ UNCHANGED <<now, advances, lastSeen, cmds, nextId, delivered,
                   winVars, evalVars, telVars, monVars, auxVars>>

\* case <-ctx.Done(): return ctx.Err()
VerifyCancelled(c) ==
    /\ calls[c].pc = "wait"
    /\ ctxDone
    /\ calls' = [calls EXCEPT ![c] = Returned(calls[c], "cancelled", cmds)]
    /\ UNCHANGED <<now, advances, lastSeen, cmds, nextId, delivered,
                   winVars, evalVars, telVars, monVars, auxVars>>

\* the ticker fires every 500 ms while a call waits for its deadline
TimePasses ==
    /\ \E c \in Calls : calls[c].pc = "wait" /\ now < calls[c].deadline
    /\ now' = now + TickMs
    /\ UNCHANGED <<advances, lastSeen, cmds, nextId, calls, delivered,
                   winVars, evalVars, telVars, monVars, auxVars>>

----------------------------------------------------------------------------
(* The transport client: the handler registry and its lock *)

\* the patterns subscribed to and the topics of inbound messages
SubPatterns == {<<"a", "/", "+">>, <<"a", "/", "b">>, <<"#">>}
InTopics == {<<"a", "/", "b">>, <<"a", "/", "a">>, <<"b">>}

NoHandler == <<>>

\* NewClient: handlers: make(map[string]MessageHandler); a handler is named
\* by the pattern it was registered for
NewClient ==
    [handlers |-> {},
     readers |-> 0, writer |-> FALSE,              \* c.mu
     \* the goroutine inside handleMessage
     in |-> [pc |-> "idle", topic |-> <<>>, handler |-> NoHandler,
             locked |-> FALSE, raced |-> FALSE, fault |-> FALSE, n |-> 0],
     \* the goroutine inside Subscribe or Unsubscribe
     sub |-> [pc |-> "idle", op |-> "", topic |-> <<>>, n |-> 0]]

ClientStep(next) ==
    /\ client' = next
    /\ UNCHANGED <<cmdVars, winVars, evalVars, telVars, monVars, monitor,
                   matched, ctxDone, hub>>

\* handleMessage: c.mu.RLock()
HandleMessage(topic) ==
    /\ client.in.pc = "idle"
    /\ client.in.n < MaxInbound
    /\ ~client.writer
    /\ ClientStep([client EXCEPT
                      !.readers = @ + 1,
                      !.in = [pc |-> "lookup", topic |-> topic,
                              handler |-> NoHandler, locked |-> TRUE,
                              raced |-> FALSE, fault |-> FALSE, n |-> @.n + 1]])

\* handler, exists := c.handlers[topic]; c.mu.RUnlock()
HandleLookup ==
    /\ client.in.pc = "lookup"
    /\ ClientStep([client EXCEPT
                      !.readers = @ - 1,
                      !.in.locked = FALSE,
                      !.in.handler = IF client.in.topic \in client.handlers
                                     THEN client.in.topic ELSE NoHandler,
                      !.in.pc = IF client.in.topic \in client.handlers
                                THEN "call" ELSE "scan"])

\* if !exists: for registeredTopic, h := range c.handlers, begun without the
\* lock; the iteration takes a matching entry in the map's order, and one
\* that a write overlaps can see the map before or after it, or fault
\* ("concurrent map iteration and map write")
HandleScan ==
    /\ client.in.pc = "scan"
    /\ ClientStep([client EXCEPT !.in.pc = "scanning",
                                 !.in.raced = client.sub.pc = "write"])

\* the iteration ends
HandleScanEnd(seen, faulted) ==
    LET matches == {p \in seen : matchTopic(p, client.in.topic)}
    IN  /\ client.in.pc = "scanning"
        /\ faulted => client.in.raced
        /\ seen # client.handlers => client.in.raced
        /\ \E h \in (IF matches = {} THEN {NoHandler} ELSE matches) :
              ClientStep([client EXCEPT !.in.pc = "call",
                                       !.in.handler = h,
                                       !.in.fault = faulted])

\* handler(topic, payload), or "No handler found"
HandleCall ==
    /\ client.in.pc = "call"
    /\ ClientStep([client EXCEPT !.in.pc = "idle"])

\* Subscribe(topic, handler): c.mu.Lock()
Subscribe(topic) ==
    /\ client.sub.pc = "idle"
    /\ client.sub.n < MaxSubs
    /\ ~client.writer /\ client.readers = 0
    /\ ClientStep([client EXCEPT
                      !.writer = TRUE,
                      !.sub = [pc |-> "write", op |-> "subscribe",
                               topic |-> topic, n |-> @.n + 1]])

\* Unsubscribe(topic): c.mu.Lock()
Unsubscribe(topic) ==
    /\ client.sub.pc = "idle"
    /\ client.sub.n < MaxSubs
    /\ topic \in client.handlers
    /\ ~client.writer /\ client.readers = 0
    /\ ClientStep([client EXCEPT
                      !.writer = TRUE,
                      !.sub = [pc |-> "write", op |-> "unsubscribe",
                               topic |-> topic, n |-> @.n + 1]])

\* c.handlers[topic] = handler, or delete(c.handlers, topic)
RegistryWrite ==
    /\ client.sub.pc = "write"
    /\ ClientStep([client EXCEPT
                      !.handlers = IF client.sub.op = "subscribe"
                                   THEN @ \cup {client.sub.topic}
                                   ELSE @ \ {client.sub.topic},
                      !.in.raced = @ \/ client.in.pc = "scanning",
                      !.sub.pc = "unlock"])

\* c.mu.Unlock()
RegistryUnlock ==
    /\ client.sub.pc = "unlock"
    /\ ClientStep([client EXCEPT !.writer = FALSE, !.sub.pc = "idle"])

----------------------------------------------------------------------------
(* AlertService.Dispatch and the websocket Hub *)

WsClients == {"c1", "c2"}

\* NewHub: unbuffered broadcast and register channels, no clients; Run not
\* yet started, its context live; no Dispatch call in progress
NewHub ==
    [clients |-> {}, run |-> "new", ctxDone |-> FALSE,
     dispatch |-> [pc |-> "idle", severity |-> "", err |-> "none", n |-> 0],
     delivered |-> 0]

HubStep(next) ==
    /\ hub' = next
    /\ UNCHANGED <<cmdVars, winVars, evalVars, telVars, monVars, monitor,
                   matched, ctxDone, client>>

\* go hub.Run(ctx)
HubRun ==
    /\ hub.run = "new"
    /\ HubStep([hub EXCEPT !.run = "running"])

\* the context of Run is cancelled
HubCancel ==
    /\ ~hub.ctxDone
    /\ HubStep([hub EXCEPT !.ctxDone = TRUE])

\* Run: case <-ctx.Done(): return
HubStop ==
    /\ hub.run = "running"
    /\ hub.ctxDone
    /\ HubStep([hub EXCEPT !.run = "stopped"])

\* Run: case client := <-h.register
HubRegister(cl) ==
    /\ hub.run = "running"
    /\ cl \notin hub.clients
    /\ HubStep([hub EXCEPT !.clients = @ \cup {cl}])

\* Dispatch: repo.Create(ctx, alert); on an error it returns, otherwise it
\* goes on to notify, where Hub.Broadcast sends on h.broadcast
DispatchCreate(severity, ok) ==
    /\ hub.dispatch.pc = "idle"
    /\ hub.dispatch.n < MaxDispatch
    /\ HubStep([hub EXCEPT
                   !.dispatch = [pc |-> IF ok THEN "sending" ELSE "idle",
                                 severity |-> severity,
                                 err |-> IF ok THEN "none" ELSE "persist",
                                 n |-> @.n + 1]])

\* the send on the unbuffered h.broadcast meets Run's case message :=
\* <-h.broadcast: Broadcast and Dispatch return, and Run hands the message to
\* every client whose send buffer takes it and drops the others
HubBroadcast(kept) ==
    /\ hub.dispatch.pc = "sending"
    /\ hub.run = "running"
    /\ kept \subseteq hub.clients
    /\ HubStep([hub EXCEPT !.dispatch.pc = "idle",
                           !.clients = kept,
                           !.delivered = @ + 1])

InitAux ==
    /\ monitor = NewMonitor
    /\ hub = NewHub
    /\ client = NewClient
    /\ matched = NoMatch
    /\ ctxDone = FALSE

----------------------------------------------------------------------------
(* The environment of the command manager *)

\* ProbeMonitor.handleStatusBroadcast: UpdateLastSeen(probeID, time.Now())
StatusBroadcast(p) ==
    /\ lastSeen' = UpdateLastSeen(lastSeen, p, now)
    /\ UNCHANGED <<now, advances, cmds, nextId, calls, delivered, winVars, evalVars, telVars, monVars,
                   auxVars>>

\* a result message arrives while the API is in use
Result(m) == ProcessCommandResult(m) /\ UNCHANGED delivered

\* time passes
Advance(d) ==
    /\ advances < MaxAdvance
    /\ advances' = advances + 1
    /\ now' = now + d
    /\ UNCHANGED <<lastSeen, cmds, nextId, calls, delivered, winVars, evalVars, telVars, monVars,
                   auxVars>>

\* the scan history a device has from earlier runs
History ==
    [i \in 1..PruneKeep |->
        [probe |-> "p1", type |-> "deep_scan", status |-> "completed",
         result |-> DeviceResult]]

NoRows == [i \in {} |-> Row("", "", "")]


InitCmd ==
    /\ now = StartTime
    /\ lastSeen \in [Probes -> {StartTime - a : a \in InitialAges}]
    /\ cmds = NoRows
    /\ nextId = Cardinality(DOMAIN cmds) + 1
    /\ calls = [c \in Calls |-> IdleCall]
    /\ advances = 0
    /\ delivered = NoDelivery

Init ==
    /\ InitCmd
    /\ win = NewMetricWindow(1)
    /\ pushed = <<>>
    /\ InitEval
    /\ InitTelemetry
    /\ InitMonitor
    /\ InitAux

Next ==
    \/ \E c \in Calls, req \in Requests : IssueCreate(c, req)
    \/ \E c \in Calls : VerifyLookup(c)
    \/ \E c \in Calls : VerifySendPing(c)
    \/ \E c \in Calls : VerifyPoll(c)
    \/ \E c \in Calls : VerifyDeadline(c)
    \/ \E c \in Calls : Dispatch(c)
    \/ \E c \in Calls : Finish(c)
    \/ \E c \in Calls, t \in BroadcastTypes : BroadcastCreate(c, t)
    \/ \E c \in Calls : BroadcastPublish(c)
    \/ \E c \in Calls : BroadcastFinish(c)
    \/ \E m \in LifecycleMsgs : Result(m)
    \/ \E id \in ApiIds : UpdateResultByID(id, ApiResult)
    \/ \E p \in Probes : StatusBroadcast(p)
    \/ \E d \in {TickMs, VerifyTimeout} : Advance(d)

Spec == Init /\ [][Next]_vars

----------------------------------------------------------------------------
(* The result handler by itself: every message against a stored table *)

\* rows a table may hold beside the scan history
ExtraRows ==
    {r \in [probe : {"p1", BroadcastKey}, type : {"ping", "deep_scan"},
            status : {"pending", "sent", "completed"},
            result : {"null", EmptyResult, DeviceResult}] :
        r.result = (IF r.status = "pending" THEN "null"
                    ELSE IF r.status = "sent" THEN EmptyResult ELSE DeviceResult)}

WithRow(table, row) ==
    [i \in DOMAIN table \cup {Cardinality(DOMAIN table) + 1} |->
        IF i \in DOMAIN table THEN table[i] ELSE row]

Tables ==
    {WithRow(History, r) : r \in ExtraRows}
        \cup {WithRow(WithRow(History, r), q) : r \in ExtraRows, q \in ExtraRows}

InitResult ==
    /\ now = StartTime
    /\ advances = 0
    /\ lastSeen = [p \in Probes |-> StartTime - StaleThreshold]
    /\ cmds \in Tables
    /\ nextId = Cardinality(DOMAIN cmds) + 1
    /\ calls = [c \in Calls |-> IdleCall]
    /\ delivered = NoDelivery
    /\ win = NewMetricWindow(1)
    /\ pushed = <<>>
    /\ InitEval
    /\ InitTelemetry
    /\ InitMonitor
    /\ InitAux

\* handleCommandResult: one message of the result subscription
Deliver(m) ==
    /\ delivered.n < MaxDeliver
    /\ ProcessCommandResult(m)
    /\ delivered' = [n |-> delivered.n + 1, msg |-> m, table |-> cmds,
                     seen |-> lastSeen]

NextResult == \E m \in Msgs : Deliver(m)

SpecResult == InitResult /\ [][NextResult]_vars

----------------------------------------------------------------------------
(* The sliding window by itself *)

InitWindow ==
    /\ now = StartTime
    /\ advances = 0
    /\ lastSeen = [p \in Probes |-> StartTime]
    /\ cmds = NoRows
    /\ nextId = 1
    /\ calls = [c \in Calls |-> IdleCall]
    /\ delivered = NoDelivery
    /\ \E size \in 0..MaxWin : win = NewMetricWindow(size)
    /\ pushed = <<>>
    /\ InitEval
    /\ InitTelemetry
    /\ InitMonitor
    /\ InitAux

\* state.RSSIWindow.Push(...) / state.LatencyWindow.Push(...)
PushSample(v) ==
    /\ Len(pushed) < MaxPush
    /\ win' = Push(win, v)
    /\ pushed' = Append(pushed, v)
    /\ UNCHANGED <<cmdVars, evalVars, telVars, monVars, auxVars>>

NextWindow == \E v \in Samples : PushSample(v)

SpecWindow == InitWindow /\ [][NextWindow]_vars

----------------------------------------------------------------------------
(* The alert evaluator by itself *)

\* the command manager at rest
InitRest ==
    /\ now = StartTime
    /\ advances = 0
    /\ lastSeen = [p \in Probes |-> StartTime]
    /\ cmds = NoRows
    /\ nextId = 1
    /\ calls = [c \in Calls |-> IdleCall]
    /\ delivered = NoDelivery
    /\ win = NewMetricWindow(1)
    /\ pushed = <<>>

InitAlert == InitRest /\ InitEval /\ InitTelemetry /\ InitMonitor /\ InitAux

NextAlert ==
    \/ \E t \in Telemetries : EvalLookup(t)
    \/ EvalSignal
    \/ EvalLatency
    \/ \E c \in AlertConfigs : UpdateConfig(c)
    \/ \E p \in EvalProbes : ResetProbe(p)

SpecAlert == InitAlert /\ [][NextAlert]_vars

----------------------------------------------------------------------------
(* The telemetry pipeline by itself *)

InitIngest ==
    /\ InitRest
    /\ InitEval
    /\ InitMonitor
    /\ InitAux
    /\ registry \in {NoProbes, [k \in {"p1"} |-> KnownProbe(StartTime - 2000)]}
    /\ telemetryRows = {}
    /\ lastMsg = NoMsg

NextIngest == \E m \in RawMessages : ProcessMessage(m)

SpecIngest == InitIngest /\ [][NextIngest]_vars

----------------------------------------------------------------------------
(* The probe monitor by itself *)

MonitorSteps == {OfflineAfter, StaleAfter}

InitMon == InitRest /\ InitEval /\ InitTelemetry /\ InitMonitor /\ InitAux

NextMonitor ==
    \/ \E m \in StatusBroadcasts : HandleStatusBroadcast(m)
    \/ \E m \in ConfigBroadcasts : HandleConfigBroadcast(m)
    \/ SweepStart
    \/ SweepStatus
    \/ SweepConfig
    \/ SweepPing
    \/ \E d \in MonitorSteps : Advance(d)

SpecMonitor == InitMon /\ [][NextMonitor]_vars

----------------------------------------------------------------------------
(* The probe monitor from Start to Shutdown *)

\* the broadcasts of one device
StatusFromP1 == {m \in StatusBroadcasts : m.probe_id # Str("p2")}
ConfigFromP1 == {m \in ConfigBroadcasts : m.probe_id # Str("p2")}

NextShutdown ==
    \/ Start
    \/ \E w \in Workers \ {"cleanup"}, ok \in BOOLEAN : Subscribed(w, ok)
    \/ \E m \in StatusFromP1 : StatusLoop(m)
    \/ \E m \in ConfigFromP1 : ConfigLoop(m)
    \/ CleanupLoop
    \/ \E w \in Workers : LoopExit(w)
    \/ ShutdownCancel
    \/ ShutdownReturn

\* every goroutine keeps running; select takes a ready case at random, so a
\* ready ctx.Done() is not passed over for ever
SpecShutdown ==
    /\ InitMon
    /\ [][NextShutdown]_vars
    /\ \A w \in Workers : SF_vars(LoopExit(w))
    /\ \A w \in Workers \ {"cleanup"} :
           WF_vars(\E ok \in BOOLEAN : Subscribed(w, ok))
    /\ WF_vars(SweepStatus \/ SweepConfig \/ SweepPing)
    /\ WF_vars(ShutdownReturn)

----------------------------------------------------------------------------
(* matchTopic on every pattern and topic of a bounded length *)

InitMatch ==
    /\ InitRest /\ InitEval /\ InitTelemetry /\ InitMonitor
    /\ monitor = NewMonitor
    /\ ctxDone = FALSE
    /\ client = NewClient
    /\ hub = NewHub
    /\ matched \in [pattern : Strings(PatternChars, MaxTopicLen),
                     topic : Strings(TopicChars, MaxTopicLen),
                     done : {FALSE}, result : {FALSE}]

NextMatch == MatchTopic

SpecMatch == InitMatch /\ [][NextMatch]_vars

----------------------------------------------------------------------------
(* The connectivity check of one IssueCommand call, up to its return *)

NextVerify ==
    \/ \E c \in Calls, req \in Requests : req.type # "ping" /\ IssueCreate(c, req)
    \/ \E c \in Calls : VerifyLookupCtx(c)
    \/ \E c \in Calls : VerifySendPing(c)
    \/ \E c \in Calls : VerifyPollCtx(c)
    \/ \E c \in Calls : VerifyDeadline(c)
    \/ \E c \in Calls : VerifyCancelled(c)
    \/ \E p \in Probes : StatusBroadcast(p)
    \/ CtxCancel
    \/ TimePasses

\* the goroutine of the call keeps running, time passes, and a select with a
\* case that stays ready takes it eventually
SpecVerify ==
    /\ Init
    /\ [][NextVerify]_vars
    /\ \A c \in Calls :
           /\ WF_vars(VerifyLookupCtx(c))
           /\ WF_vars(VerifySendPing(c))
           /\ WF_vars(VerifyDeadline(c) \/ VerifyCancelled(c))
    /\ WF_vars(TimePasses)

----------------------------------------------------------------------------
(* The alert evaluator on telemetry with unset metrics *)

NextSparse ==
    \/ \E t \in SparseTelemetries : EvalLookup(t)
    \/ EvalSignal
    \/ EvalLatency

SpecSparse == InitAlert /\ [][NextSparse]_vars

----------------------------------------------------------------------------
(* The transport client: deliveries against Subscribe and Unsubscribe *)

NextClient ==
    \/ \E t \in InTopics : HandleMessage(t)
    \/ HandleLookup
    \/ HandleScan
    \/ \E seen \in SUBSET SubPatterns, faulted \in BOOLEAN :
          HandleScanEnd(seen, faulted)
    \/ HandleCall
    \/ \E p \in SubPatterns : Subscribe(p)
    \/ \E p \in SubPatterns : Unsubscribe(p)
    \/ RegistryWrite
    \/ RegistryUnlock

SpecClient == InitMon /\ [][NextClient]_vars

----------------------------------------------------------------------------
(* Dispatch calls against the Hub's Run loop *)

NextHub ==
    \/ HubRun
    \/ HubCancel
    \/ HubStop
    \/ \E cl \in WsClients : HubRegister(cl)
    \/ \E sev \in {SeverityWarning, SeverityCritical}, ok \in BOOLEAN :
          DispatchCreate(sev, ok)
    \/ \E kept \in SUBSET WsClients : HubBroadcast(kept)

\* the Run loop, once started, keeps running: a sender waiting on
\* h.broadcast is served while the loop is at its select
SpecHub ==
    /\ InitMon
    /\ [][NextHub]_vars
    /\ WF_vars(\E kept \in SUBSET WsClients : HubBroadcast(kept))

----------------------------------------------------------------------------
(* Properties of the command lifecycle *)

Terminal == {"completed", "failed"}
Lifecycle == {"pending", "sent", "completed", "failed"}

\* the ping IssueCommand publishes to wake a device up
WakePing(call) == WireCommand(CommandTopic(call.probe), "ping", call.pingId)

\* the command IssueCommand was asked to send
Requested(call) == WireCommand(CommandTopic(call.probe), call.type, call.id)

\* C1: once a command's status is completed or failed, no step changes that
\* row's status again.
C1_TerminalIsFinal ==
    [][\A id \in DOMAIN cmds :
          (cmds[id].status \in Terminal /\ id \in DOMAIN cmds')
              => cmds'[id].status = cmds[id].status]_vars

\* the case of a result message that names an existing row by its id
NamesRow(d) ==
    /\ d.n > 0
    /\ d.msg.command_id # <<>>
    /\ CorrelatedId(d.msg) \in DOMAIN d.table

\* C2 as claimed: a result message naming an existing row changes the status
\* and result of exactly that row and leaves every other row as it was.
C2_OnlyThatRow ==
    NamesRow(delivered) =>
        LET id == CorrelatedId(delivered.msg)
        IN  /\ DOMAIN cmds = DOMAIN delivered.table
            /\ cmds[id].status = delivered.msg.status
            /\ cmds[id].result = delivered.msg.result
            /\ \A j \in DOMAIN cmds \ {id} : cmds[j] = delivered.table[j]

\* the completed deep scans of probe in table
ScansDone(table, probe) ==
    {j \in DOMAIN table : /\ table[j].probe = probe
                          /\ table[j].type = "deep_scan"
                          /\ table[j].status = "completed"}

\* C2 as amended: the named row takes the message's status and result
\* whatever device and type the message carries, no other row's fields
\* change, and rows are removed only by the pruning a completed deep_scan
\* result sets off: completed deep scans of the message's device, older than
\* the 5 most recent ones, which all stay.
C2_OnlyThatRowOrPruned ==
    NamesRow(delivered) =>
        LET m == delivered.msg
            old == delivered.table
            id == CorrelatedId(m)
            gone == DOMAIN old \ DOMAIN cmds
        IN  /\ DOMAIN cmds \subseteq DOMAIN old
            /\ id \in DOMAIN cmds =>
                  cmds[id] = [old[id] EXCEPT !.status = m.status,
                                             !.result = m.result]
            /\ \A j \in DOMAIN cmds \ {id} : cmds[j] = old[j]
            /\ gone # {} => (m.status = "completed" /\ m.command = "deep_scan")
            /\ \A j \in gone :
                  /\ j = id \/ j \in ScansDone(old, m.probe_id)
                  /\ j = id => (old[id].probe = m.probe_id
                                /\ old[id].type = "deep_scan")
                  /\ Cardinality({k \in ScansDone(cmds, m.probe_id) : k > j})
                        = PruneKeep
            /\ (m.status = "completed" /\ m.command = "deep_scan")
                  => Cardinality(ScansDone(cmds, m.probe_id)) <= PruneKeep

\* C2 witness: a message of another device and command type has been applied
\* to the row it names, beside other rows.
C2_Witness ==
    /\ NamesRow(delivered)
    /\ LET m == delivered.msg
           id == CorrelatedId(m)
       IN  /\ delivered.table[id].probe # m.probe_id
           /\ delivered.table[id].type # m.command
           /\ id \in DOMAIN cmds
           /\ cmds[id].status = m.status
           /\ cmds[id] # delivered.table[id]
           /\ Cardinality(DOMAIN cmds) > 1

\* the case of a finished IssueCommand that found the device stale, sent its
\* wake-up ping and saw no advance of last_seen up to its return
StaleNoAdvance(call) ==
    /\ call.kind = "issue"
    /\ call.pc = "done"
    /\ call.type # "ping"
    /\ call.age >= StaleThreshold
    /\ call.pub # <<>>
    /\ ~call.advanced

C4_FailedOnError ==
    \A c \in Calls :
        (calls[c].kind = "issue" /\ calls[c].pc = "done" /\ calls[c].outcome # "ok")
            => calls[c].statusAtReturn = "failed"

\* the case of a non-ping command whose device was fresh at the check
FreshAtCheck(call) ==
    /\ call.kind = "issue"
    /\ call.type # "ping"
    /\ call.age >= 0
    /\ call.age < StaleThreshold

\* C5: for a non-ping command to a fresh device IssueCommand creates no
\* liveness-probe row and publishes no ping; what it publishes is the
\* requested command, once, and a successful call has published it.
C5_FreshSkipsProbe ==
    \A c \in Calls :
        FreshAtCheck(calls[c]) =>
            /\ calls[c].pingId = 0
            /\ calls[c].pub \in {<<>>, <<Requested(calls[c])>>}
            /\ (calls[c].pc = "done" /\ calls[c].outcome = "ok")
                  => calls[c].pub = <<Requested(calls[c])>>

\* C5 witness: a non-ping command to a device seen 2 s ago was sent.
C5_Witness ==
    \E c \in Calls :
        /\ FreshAtCheck(calls[c])
        /\ calls[c].pc = "done"
        /\ calls[c].outcome = "ok"
        /\ calls[c].statusAtReturn = "sent"

\* a step of call c that polls the device record
Polls(c) ==
    /\ calls[c].pc = "wait"
    /\ calls'[c].polls = calls[c].polls + 1

NoCommandId(d) ==
    /\ d.n > 0
    /\ d.msg.command_id = <<>>

\* the pending or sent rows of the message's device and command type
OpenFor(table, m) ==
    {j \in DOMAIN table : /\ table[j].probe = m.probe_id
                          /\ table[j].type = m.command
                          /\ table[j].status \in {"pending", "sent"}}

\* C7: a result message without a command_id updates the most recently
\* issued pending or sent command of the same device and type if there is
\* one; if there is none, handling it changes no command row and no other
\* state.
C7_NoOp ==
    NoCommandId(delivered) =>
        LET m == delivered.msg
            old == delivered.table
            open == OpenFor(old, m)
        IN  IF open = {}
            THEN /\ cmds = old
                 /\ lastSeen = delivered.seen
            ELSE \E id \in open :
                    /\ \A j \in open : j <= id
                    /\ id \in DOMAIN cmds
                    /\ cmds[id].status = m.status
                    /\ cmds[id].result = m.result

C9_StatusDomain ==
    \A id \in DOMAIN cmds : cmds[id].status \in Lifecycle

\* the n most recent of the samples pushed
LastN(samples, n) ==
    {samples[i] : i \in (Len(samples) - n + 1)..Len(samples)}

\* C10: for a window of size N, IsConsistentlyBelow(t) is true exactly when at
\* least N samples have been pushed and each of the N most recent ones is
\* strictly below t, and IsConsistentlyAbove(t) likewise with strictly above.
C10_Window ==
    \A t \in Thresholds :
        /\ IsConsistentlyBelow(win, t)
              <=> /\ Len(pushed) >= win.size
                  /\ \A v \in LastN(pushed, win.size) : v < t
        /\ IsConsistentlyAbove(win, t)
              <=> /\ Len(pushed) >= win.size
                  /\ \A v \in LastN(pushed, win.size) : v > t

\* C10 witness: a window of size N >= 2 that has slid past a sample not
\* below the threshold and reports consistently below, its last N samples
\* all being below.
C10_Witness ==
    /\ win.size >= 2
    /\ Len(pushed) > win.size
    /\ \E i \in 1..(Len(pushed) - win.size) : pushed[i] >= 0
    /\ IsConsistentlyBelow(win, 0)
    /\ ~IsConsistentlyAbove(win, 0)

\* the case of an Evaluate call whose signal test has run
SignalTested(call) == call.pc \in {"latency", "done"}

\* the last N samples pushed into the signal window of the call's state are
\* all below the threshold T the test used, N being the window's size
SustainedLow(call) ==
    LET N == call.state.RSSIWindow.size
    IN  /\ Len(call.state.rssiSeq) >= N
        /\ \A v \in LastN(call.state.rssiSeq, N) : v < call.threshold

\* C11: with signal threshold T and window size N, the evaluation of a sample
\* that completes N consecutive samples below T dispatches exactly one alert,
\* of severity warning, with threshold value T and the latest sample as
\* observed value; any other evaluation, in particular that of a sample at or
\* above T, dispatches no signal alert.
C11_SignalAlert ==
    SignalTested(evalCall) =>
        /\ SustainedLow(evalCall) =>
              /\ Len(evalCall.signal) = 1
              /\ evalCall.signal[1].ProbeID = evalCall.t.ProbeID
              /\ evalCall.signal[1].Severity = "WARNING"
              /\ evalCall.signal[1].MetricKey = "rssi"
              /\ evalCall.signal[1].ThresholdValue = evalCall.threshold
              /\ evalCall.signal[1].ActualValue = evalCall.t.RSSI
        /\ ~SustainedLow(evalCall) => evalCall.signal = <<>>
        /\ evalCall.t.RSSI >= evalCall.threshold => evalCall.signal = <<>>

\* C11 witness: the second of two consecutive low samples has fired the alert
\* of a window of size 2 or more.
C11_Witness ==
    /\ evalCall.pc = "done"
    /\ evalCall.err = "none"
    /\ evalCall.state.RSSIWindow.size >= 2
    /\ Len(evalCall.state.rssiSeq) = evalCall.state.RSSIWindow.size
    /\ SustainedLow(evalCall)
    /\ Len(evalCall.signal) = 1

\* C12: after UpdateConfig changes a window size no device keeps a state made
\* before the change, and every alert comes from a window made after the last
\* such change (so of the new size and of later samples only), also when an
\* Evaluate call runs concurrently with UpdateConfig.
C12_NoStaleWindow ==
    /\ \A p \in DOMAIN probeStates : probeStates[p].born = evalGhost.epoch
    /\ evalCall.signal # <<>> => evalCall.state.born = evalCall.epochAtSignal
    /\ evalCall.latency # <<>> => evalCall.state.born = evalCall.epochAtLatency

\* C13: every finished Evaluate call has advanced both the signal window and
\* the latency window of the device by exactly one sample, whether or not a
\* sink call failed.
C13_BothAdvance ==
    evalCall.pc = "done" =>
        /\ Len(evalCall.state.rssiSeq) = evalCall.rssiBefore + 1
        /\ Len(evalCall.state.latSeq) = evalCall.latBefore + 1

\* the case of a processed telemetry message without a usable identity
NoIdentity(d) == d.n > 0 /\ d.msg.pid.type # "string"

\* C14: for a telemetry message that lacks the identity field ProcessMessage
\* returns an error, inserts no telemetry record and creates or touches no
\* device record.
C14_NoIdentityNoEffect ==
    NoIdentity(lastMsg) =>
        /\ lastMsg.err # "none"
        /\ telemetryRows = lastMsg.rows
        /\ registry = lastMsg.registry

\* C14 witness: a message without pid, otherwise a complete light record, was
\* refused.
C14_Witness ==
    /\ NoIdentity(lastMsg)
    /\ lastMsg.msg.type = Str("light")
    /\ lastMsg.msg.epoch.type = "number"
    /\ lastMsg.err = "missing probe_id"

\* the case of a processed well-formed light message of a device key that
\* the registry did not hold
LightFromStranger(d) ==
    /\ d.n > 0
    /\ d.msg.pid.type = "string"
    /\ d.msg.type = Str("light")
    /\ d.msg.epoch.type = "number"
    /\ d.msg.pid.s \notin DOMAIN d.registry

C16_NoRecordOnFailure ==
    (lastMsg.n > 0 /\ lastMsg.err # "none") =>
        DOMAIN registry = DOMAIN lastMsg.registry

\* steps of the sweep and of the broadcast handlers
SweepsStatus == sweep.pc = "status" /\ sweep'.pc = "config"
SweepsConfig == sweep.pc = "config" /\ sweep'.pc = "ping"
SweepsPing == sweep.pc = "ping" /\ sweep'.pc = "idle"
Handles(kind) == monGhost'.msgs = monGhost.msgs + 1 /\ monGhost'.event = kind

\* an entry updated within the staleness window of the sweep
WithinWindow(entry) == sweep.now - entry.UpdatedAt <= StaleAfter

\* C17: the sweep leaves in the status cache and in the config cache exactly
\* the entries whose update time is within 15 minutes of the sweep: a read
\* returns such an entry as it was, and nil for an older one.
C17_SweepKeepsFresh ==
    [][/\ SweepsStatus =>
             \A k \in MonitorKeys :
                 GetProbeStatus(k)' =
                     IF GetProbeStatus(k) # Nil /\ WithinWindow(GetProbeStatus(k))
                     THEN GetProbeStatus(k) ELSE Nil
       /\ SweepsConfig =>
             \A k \in MonitorKeys :
                 GetProbeConfig(k)' =
                     IF GetProbeConfig(k) # Nil /\ WithinWindow(GetProbeConfig(k))
                     THEN GetProbeConfig(k) ELSE Nil]_vars

\* C17 witness: a sweep has removed the status entry of p1, older than 15
\* minutes, and kept that of p2, exactly 15 minutes old.
C17_Witness ==
    /\ monGhost.event = "swept"
    /\ "p1" \in DOMAIN monGhost.heard
    /\ sweep.now - monGhost.heard["p1"] > StaleAfter
    /\ GetProbeStatus("p1") = Nil
    /\ GetProbeStatus("p2") # Nil
    /\ sweep.now - GetProbeStatus("p2").UpdatedAt = StaleAfter

\* C18: the liveness read of a device that never sent a status broadcast
\* does not say offline: its flag differs from the flag read for a device the
\* sweep has marked offline.
C18_MissIsNotOffline ==
    \A k \in MonitorKeys, j \in MonitorKeys :
        (k \notin DOMAIN pingStatus /\ j \in DOMAIN pingStatus
            /\ ~pingStatus[j].Online)
            => GetPingStatus(k).Online # GetPingStatus(j).Online

\* C19: a device's liveness flag is online once a status broadcast of it has
\* been handled; the sweep sets the flag to offline exactly when more than 3
\* minutes lie between the device's last status broadcast and the sweep, and
\* keeps the last-seen time; a config broadcast leaves the flags alone.
C19_Liveness ==
    [][/\ Handles("status") =>
             /\ monGhost'.probe \in DOMAIN pingStatus'
             /\ pingStatus'[monGhost'.probe].Online
             /\ pingStatus'[monGhost'.probe].LastSeen = now
       /\ SweepsPing =>
             /\ DOMAIN pingStatus' = DOMAIN pingStatus
             /\ DOMAIN pingStatus = DOMAIN monGhost.heard
             /\ \A k \in DOMAIN pingStatus :
                   /\ pingStatus'[k].Online
                         <=> ~(sweep.now - monGhost.heard[k] > OfflineAfter)
                   /\ pingStatus'[k].LastSeen = pingStatus[k].LastSeen
                   /\ pingStatus'[k].LastSeen = monGhost.heard[k]
       /\ Handles("config") => pingStatus' = pingStatus]_vars

\* C19 witness: a sweep has marked p1 offline, 6 minutes after its last
\* status broadcast, and left p2 online, exactly 3 minutes after its own.
C19_Witness ==
    /\ monGhost.event = "swept"
    /\ DOMAIN pingStatus = {"p1", "p2"}
    /\ ~pingStatus["p1"].Online
    /\ pingStatus["p1"].LastSeen = monGhost.heard["p1"]
    /\ pingStatus["p2"].Online
    /\ sweep.now - monGhost.heard["p2"] = OfflineAfter

\* C20: a status or config broadcast overwrites in the device's cache entry
\* only the fields it carries and stamps the update time; a field cached
\* from an earlier broadcast stays when the later one does not carry it (so
\* no field that held a value is empty afterwards).
C20_OnlyCarriedFields ==
    [][/\ Handles("status") =>
             LET k == monGhost'.probe
             IN  k \in DOMAIN probeStatus =>
                     /\ probeStatus'[k].UpdatedAt = now
                     /\ probeStatus'[k].IP = "" => probeStatus[k].IP = ""
                     /\ probeStatus'[k].RSSI = 0 => probeStatus[k].RSSI = 0
       /\ Handles("config") =>
             LET k == monGhost'.probe
             IN  k \in DOMAIN probeConfig =>
                     /\ probeConfig'[k].UpdatedAt = now
                     /\ probeConfig'[k].WiFi = "" => probeConfig[k].WiFi = ""
                     /\ probeConfig'[k].HeapFree = 0 => probeConfig[k].HeapFree = 0]_vars

----------------------------------------------------------------------------
(* Properties of the monitor's shutdown *)

\* no goroutine of the monitor is running
Stopped == \A w \in Workers : monitor.loops[w] \in {"idle", "exited"}

\* C21: once Shutdown has been called (it is waiting on the wait group), it
\* eventually returns; when it has returned, both subscription loops and the
\* sweep worker have exited, and from then on no step changes the status
\* cache, the config cache or the liveness flags.
C21_ShutdownStops ==
    /\ (monitor.shutdown = "waiting") ~> (monitor.shutdown = "returned")
    /\ [](monitor.shutdown = "returned" => Stopped)
    /\ [][monitor.shutdown = "returned" =>
             UNCHANGED <<probeStatus, probeConfig, pingStatus>>]_vars

\* Shutdown has returned after the monitor ran: all three goroutines had been
\* started and reached their select, a broadcast was cached and a sweep ran
C21_Witness ==
    /\ monitor.shutdown = "returned"
    /\ \A w \in Workers : monitor.loops[w] = "exited"
    /\ "p1" \in DOMAIN probeStatus
    /\ "p1" \in DOMAIN probeConfig
    /\ monGhost.sweeps > 0

----------------------------------------------------------------------------
(* Properties of topic matching *)

\* the levels of a topic or filter: the runs between slashes, empty runs too
RECURSIVE LevelsFrom(_, _, _, _)
LevelsFrom(s, i, current, parts) ==
    IF i > Len(s) THEN Append(parts, current)
    ELSE IF s[i] = "/" THEN LevelsFrom(s, i + 1, <<>>, Append(parts, current))
    ELSE LevelsFrom(s, i + 1, Append(current, s[i]), parts)

Levels(s) == LevelsFrom(s, 1, <<>>, <<>>)

\* a filter of the publish/subscribe standard: wildcards stand alone in a
\* level and '#' is the last level
ValidFilter(p) ==
    /\ p # <<>>
    /\ \A i \in 1..Len(Levels(p)) :
          LET level == Levels(p)[i]
          IN  /\ (\E j \in 1..Len(level) : level[j] \in {"+", "#"}) =>
                     Len(level) = 1
              /\ level = <<"#">> => i = Len(Levels(p))

\* standard matching, level by level
RECURSIVE StandardFrom(_, _, _)
StandardFrom(f, t, i) ==
    IF i > Len(f) THEN Len(t) = Len(f)
    ELSE IF f[i] = <<"#">> THEN Len(t) >= i - 1
    ELSE IF i > Len(t) THEN FALSE
    ELSE IF f[i] = <<"+">> \/ f[i] = t[i] THEN StandardFrom(f, t, i + 1)
    ELSE FALSE

StandardMatch(pattern, topic) == StandardFrom(Levels(pattern), Levels(topic), 1)

\* C22: for every valid filter and every non-empty topic, matchTopic returns
\* what standard wildcard matching returns: '+' matches exactly one level, a
\* trailing '#' the remaining levels including none, other levels must be
\* equal, and empty levels count as levels.
C22_StandardMatching ==
    (matched.done /\ ValidFilter(matched.pattern) /\ matched.topic # <<>>) =>
        matched.result = StandardMatch(matched.pattern, matched.topic)

----------------------------------------------------------------------------
(* Properties of repeated alerts *)

\* before its last sample, the sequence already ended in n samples that
\* conform (are below the threshold, or above it)
SaturatedBefore(seq, n, threshold, below) ==
    LET prev == SubSeq(seq, 1, Len(seq) - 1)
    IN  /\ Len(prev) >= n
        /\ \A v \in LastN(prev, n) : IF below THEN v < threshold ELSE v > threshold

\* C23: when the device's window already held N conforming samples, the
\* evaluation of one more conforming sample dispatches an alert of the same
\* kind again: a signal alert for every further low sample, a latency alert
\* for every further high sample that reaches the latency test. Nothing is
\* held back because an earlier alert is unresolved.
C23_NoLatch ==
    /\ ( /\ SignalTested(evalCall)
         /\ SaturatedBefore(evalCall.state.rssiSeq,
                            evalCall.state.RSSIWindow.size,
                            evalCall.threshold, TRUE)
         /\ evalCall.t.RSSI < evalCall.threshold )
        => /\ Len(evalCall.signal) = 1
           /\ evalCall.signal[1].Category = CategorySignal
    /\ ( /\ evalCall.pc = "done"
         /\ Len(evalCall.state.latSeq) = evalCall.latBefore + 1
         /\ SaturatedBefore(evalCall.state.latSeq,
                            evalCall.state.LatencyWindow.size,
                            config.LatencyThreshold, FALSE)
         /\ evalCall.t.Latency > config.LatencyThreshold )
        => /\ Len(evalCall.latency) = 1
           /\ evalCall.latency[1].Category = CategoryNetwork

\* a third low sample in a row has fired the signal alert of a window of
\* size 2 again, and a further high latency sample the latency alert
C23_Witness ==
    /\ evalCall.pc = "done"
    /\ evalCall.state.RSSIWindow.size = 2
    /\ Len(evalCall.state.rssiSeq) = 3
    /\ SaturatedBefore(evalCall.state.rssiSeq, 2, evalCall.threshold, TRUE)
    /\ Len(evalCall.signal) = 1
    /\ SaturatedBefore(evalCall.state.latSeq,
                       evalCall.state.LatencyWindow.size,
                       config.LatencyThreshold, FALSE)
    /\ Len(evalCall.latency) = 1

----------------------------------------------------------------------------
(* Properties of the connectivity check under cancellation *)

\* the call is inside VerifyProbeConnectivity
Verifying(call) == call.pc \in {"verify", "ping", "wait"}

\* VerifyProbeConnectivity has returned nil and IssueCommand goes on
VerifiedOk(call) == call.pc = "dispatch"

\* the call returned an error before it began to wait: the device lookup,
\* the creation of the ping command or its publication failed
FailedEarly(call) == call.outcome \in {"lookup_failed", "ping_send_failed"}

\* the ways the wait loop ends: success, the unreachable error no earlier than
\* the deadline, the cancellation error only under a cancelled context
LoopOutcome(call) ==
    \/ VerifiedOk(call)
    \/ call.outcome = "unreachable" /\ now >= StartTime + VerifyTimeout
    \/ call.outcome = "cancelled" /\ ctxDone

----------------------------------------------------------------------------
(* Properties of a result that overtakes the end of IssueCommand *)

\* C25: when the device's result for a command has been stored (terminal
\* status, result payload) before the IssueCommand call that published the
\* command makes its final status write, the row keeps that status and that
\* payload: it does not end in status sent with an empty result.
C25_ResultSurvivesReturn ==
    [][\A c \in Calls :
          LET id == calls[c].id
          IN  ( /\ calls[c].kind = "issue"
                /\ calls[c].pc = "update"
                /\ calls[c].err = "none"
                /\ calls'[c].pc = "done"
                /\ id \in DOMAIN cmds
                /\ cmds[id].status \in Terminal
                /\ cmds[id].result = DeviceResult )
              => /\ cmds'[id].status = cmds[id].status
                 /\ cmds'[id].result = DeviceResult]_vars

----------------------------------------------------------------------------
(* Properties of telemetry with unset metrics *)

\* C26: an Evaluate call for telemetry whose signal strength or latency is
\* unset finishes without a fault, pushes nothing into the window of the
\* unset metric, and pushes the metric that is set into its window.
C26_UnsetIsSkipped ==
    LET call == evalCall
        rssiUnset == IsNil(call.t, "rssiNil")
        latencyUnset == IsNil(call.t, "latencyNil")
    IN  (call.pc = "done" /\ (rssiUnset \/ latencyUnset)) =>
            /\ call.err # "panic"
            /\ rssiUnset => Len(call.state.rssiSeq) = call.rssiBefore
            /\ latencyUnset => Len(call.state.latSeq) = call.latBefore
            /\ ~rssiUnset => Len(call.state.rssiSeq) = call.rssiBefore + 1
            /\ (~latencyUnset /\ call.err = "none") =>
                   Len(call.state.latSeq) = call.latBefore + 1

----------------------------------------------------------------------------
(* Properties of parameter validation *)

\* C27: an IssueCommand call for a command whose required parameter is
\* missing or empty publishes no message of that command type, leaves the
\* command failed with the validation error as its result, and returns an
\* error.
C27_ValidationFails ==
    \A c \in Calls :
        LET call == calls[c]
        IN  ( /\ call.kind = "issue"
              /\ call.pc = "done"
              /\ MissingParams(call.type, call.payload) )
            => /\ \A i \in 1..Len(call.pub) : call.pub[i].command # call.type
               /\ call.outcome # "ok"
               /\ call.statusAtReturn = "failed"
               /\ call.resultAtReturn = FinalResult("validation")

----------------------------------------------------------------------------
(* Properties of the internal liveness probe *)

\* C28: the ping command VerifyProbeConnectivity creates does not stay in
\* status pending once VerifyProbeConnectivity has returned: its publish
\* attempt has finished by then and the row is sent or failed (or carries
\* what a result made of it).
C28_PingLeavesPending ==
    \A c \in Calls :
        ( /\ calls[c].kind = "issue"
          /\ ~Verifying(calls[c])
          /\ calls[c].pingId \in DOMAIN cmds )
        => cmds[calls[c].pingId].status # "pending"

----------------------------------------------------------------------------
(* Properties of the handler registry *)

\* handleMessage is reading c.handlers
Reading == client.in.pc \in {"lookup", "scanning"}

\* C29: whenever handleMessage reads the handler registry, in the exact
\* lookup or in the scan over the registered patterns, it holds the
\* registry lock, so no read runs while Subscribe or Unsubscribe writes.
C29_ReadsUnderLock ==
    /\ Reading => client.in.locked
    /\ ~(Reading /\ client.sub.pc = "write")
    /\ ~client.in.raced

----------------------------------------------------------------------------
(* Properties of the notification step *)

\* a Dispatch call is inside Hub.Broadcast, waiting to hand its message over
Sending == hub.dispatch.pc = "sending"

\* C30: every Dispatch call returns: a call that has reached Hub.Broadcast
\* gets out of it, and it is never left waiting on a hub whose Run loop has
\* returned, where nothing can receive its message any more.
C30_DispatchReturns ==
    /\ Sending ~> ~Sending
    /\ [](~(Sending /\ hub.run = "stopped"))

============================================================================
